---- MODULE Spec2Model ----
(***************************************************************************)
(* The benchmark driver of perf.py: run(problems, solver_factories) and    *)
(* the __main__ block that dumps its result as JSON on the error stream.   *)
(* The solver pipelines, the timer, the problem parser and the cloud       *)
(* client are collaborators: each call to one of them either returns or    *)
(* raises, and what it returns is drawn from a small set.                  *)
(***************************************************************************)
EXTENDS Integers, Sequences, FiniteSets, TLC

\* ------------------------------------------------------------------ bounds
MaxProblems == 2
MaxPipelines == 2
MaxCases == 4

\* ------------------------------------------------------------ value domains
\* problem file paths and pipeline names are identified by small integers
Paths == 1..MaxProblems
Names == 1..MaxPipelines

\* classes of raised objects: ValueError derives from Exception,
\* KeyboardInterrupt derives from BaseException only
ExcKinds == {"ValueError", "KeyboardInterrupt"}

IsException(kind) == kind = "ValueError"

\* repr(exc) of an exception raised without arguments
Repr(kind) ==
  CASE kind = "ValueError" -> "ValueError()"
    [] kind = "KeyboardInterrupt" -> "KeyboardInterrupt()"
    [] OTHER -> "None"

\* energies a pipeline may report for its lowest-energy sample
Energies == {-1, 0}

\* elapsed times the timer may report
tictoc_dt == {0, 1}

\* the statements of one case that sit inside the try block
TryStages == {"factory", "from_sample", "run", "result"}

\* where an exception can be raised
Stages == TryStages \cup {"DWaveSampler", "open", "else"}

\* what the pipeline of one (problem, name) case does
Outcomes ==
  {[stage |-> s, kind |-> k, energy |-> 0] :
      s \in TryStages \cup {"else"}, k \in ExcKinds}
  \cup {[stage |-> "ok", kind |-> "None", energy |-> e] : e \in Energies}

Unset == [stage |-> "unset", kind |-> "None", energy |-> 0]

NoExc == [kind |-> "None", at |-> "None"]

\* the input lists: 1..n in ascending and in descending order, for every n
\* up to max (the lists of the program hold no member twice)
Lists(max) ==
  {[i \in 1..n |-> i] : n \in 0..max} \cup {[i \in 1..n |-> n + 1 - i] : n \in 0..max}

\* a result mapping with the wallclock values left out
WithoutWallclock(dump) ==
  [i \in 1..Len(dump) |->
    [key |-> dump[i].key,
     value |-> [j \in 1..Len(dump[i].value) |->
        [key |-> dump[i].value[j].key,
         value |-> IF dump[i].value[j].value.json = "string"
                   THEN dump[i].value[j].value
                   ELSE [json |-> "object",
                         energy |-> dump[i].value[j].value.energy]]]]]

\* ------------------------------------------------------------ OrderedDict
OdKeys(od) == [i \in 1..Len(od) |-> od[i].key]

OdHas(od, k) == \E i \in 1..Len(od) : od[i].key = k

OdGet(od, k) == od[CHOOSE i \in 1..Len(od) : od[i].key = k].value

\* variant: a new key goes first
OdSet_Prepend(od, k, v) ==
  IF \E i \in 1..Len(od) : od[i].key = k
  THEN [i \in 1..Len(od) |-> IF od[i].key = k
                             THEN [key |-> k, value |-> v] ELSE od[i]]
  ELSE <<[key |-> k, value |-> v]>> \o od

\* od[k] = v : an existing key keeps its position, a new key goes last
OdSet(od, k, v) ==
  IF OdHas(od, k)
  THEN [i \in 1..Len(od) |-> IF od[i].key = k
                             THEN [key |-> k, value |-> v] ELSE od[i]]
  ELSE Append(od, [key |-> k, value |-> v])

\* results[problem][name] = v
SetEntry(res, problem, name, v) ==
  OdSet(res, problem, OdSet(OdGet(res, problem), name, v))

ErrorEntry(kind) == [type |-> "str", repr |-> Repr(kind)]

RecordEntry(energy, dt) ==
  [type |-> "dict", energy |-> energy, wallclock |-> dt]

\* json.dumps(results): objects keep the mapping's order, an error becomes
\* a JSON string and a record a JSON object
JsonValue(v) ==
  IF v.type = "str" THEN [json |-> "string", text |-> v.repr]
  ELSE [json |-> "object", energy |-> v.energy, wallclock |-> v.wallclock]

JsonRow(inner) ==
  [j \in 1..Len(inner) |-> [key |-> inner[j].key, value |-> JsonValue(inner[j].value)]]

json_dumps(res) ==
  [i \in 1..Len(res) |-> [key |-> res[i].key, value |-> JsonRow(res[i].value)]]

\* ------------------------------------------------------------------ state
VARIABLES
  problems,          \* argument: the ordered problem paths
  solver_factories,  \* argument: the ordered pipeline names (one factory each)
  pc,                \* position of the driver
  results,           \* the OrderedDict of OrderedDicts
  qpu,               \* the cloud client handle (0: unbound)
  pi,                \* index of the current problem in problems
  fi,                \* index of the current pipeline in solver_factories
  bqm,               \* the parsed problem instance
  solver,            \* the pipeline instance returned by the factory
  init_state,        \* the initial search state
  future,            \* the object returned by solver.run
  solution,          \* the state returned by future.result()
  timer,             \* timer.dt
  exc,               \* the exception in flight
  nextId,            \* identity of the next object constructed
  running,           \* the pipeline instances currently executing
  clientLog,         \* handles constructed by DWaveSampler()
  openLog,           \* files opened and parsed
  factoryLog,        \* factory calls: arguments and returned instance
  stateLog,          \* State.from_sample calls
  runLog,            \* solver.run calls
  stdout,            \* progress lines
  stderr,            \* what was written to the error stream
  oracle,            \* what each deterministic pipeline does
  rerun,             \* TRUE in the second execution of the program
  prevStderr         \* the error stream of the first execution

ctl == <<pc, pi, fi, exc>>
locals == <<qpu, bqm, solver, init_state, future, solution, timer>>
logs == <<nextId, running, clientLog, openLog, factoryLog, stateLog, runLog>>
io == <<stdout, stderr>>
args == <<problems, solver_factories, oracle, rerun, prevStderr>>
vars == <<ctl, locals, logs, io, results, args>>

problem == problems[pi]
name == solver_factories[fi]
case == <<problem, name>>

NoObject == [id |-> 0]

Init ==
  /\ problems \in Lists(MaxProblems)
  /\ solver_factories \in Lists(MaxPipelines)
  /\ Len(problems) * Len(solver_factories) <= MaxCases
  /\ pc = "start"
  /\ results = <<>>
  /\ qpu = 0
  /\ pi = 0
  /\ fi = 0
  /\ bqm = NoObject
  /\ solver = NoObject
  /\ init_state = NoObject
  /\ future = NoObject
  /\ solution = NoObject
  /\ timer = 0
  /\ exc = NoExc
  /\ nextId = 1
  /\ running = {}
  /\ clientLog = <<>>
  /\ openLog = <<>>
  /\ factoryLog = <<>>
  /\ stateLog = <<>>
  /\ runLog = <<>>
  /\ stdout = <<>>
  /\ stderr = <<>>
  /\ oracle = [c \in Paths \X Names |-> Unset]
  /\ rerun = FALSE
  /\ prevStderr = <<>>

\* an exception of class kind leaves the statement at
Raise(kind, at) ==
  /\ exc' = [kind |-> kind, at |-> at]
  /\ pc' = "raised"

\* variant: the try block holds the pipeline execution only
Caught_OnlyRun(e) == e.at \in {"run", "result"} /\ IsException(e.kind)

\* variant: the try block holds the body of the else clause too
Caught_Else(e) == e.at \in TryStages \cup {"else"} /\ IsException(e.kind)

\* the except clause of the per-case try statement handles e
Caught(e) == e.at \in TryStages /\ IsException(e.kind)

\* ---------------------------------------------------------------- actions
\* results = OrderedDict(); qpu = DWaveSampler()
DWaveSamplerOk ==
  /\ pc = "start"
  /\ results' = <<>>
  /\ qpu' = nextId
  /\ clientLog' = Append(clientLog, nextId)
  /\ nextId' = nextId + 1
  /\ pc' = "for_problem"
  /\ UNCHANGED <<pi, fi, exc, bqm, solver, init_state, future, solution, timer>>
  /\ UNCHANGED <<running, openLog, factoryLog, stateLog, runLog, io, args>>

DWaveSamplerRaises ==
  /\ pc = "start"
  /\ results' = <<>>
  /\ \E k \in ExcKinds : Raise(k, "DWaveSampler")
  /\ UNCHANGED <<pi, fi, locals, logs, io, args>>

\* for problem in problems: results[problem] = OrderedDict()
ForProblem ==
  /\ pc = "for_problem"
  /\ pi < Len(problems)
  /\ pi' = pi + 1
  /\ results' = OdSet(results, problems[pi + 1], <<>>)
  /\ pc' = "open"
  /\ UNCHANGED <<fi, exc, locals, logs, io, args>>

\* the problems are exhausted: return results
Return ==
  /\ pc = "for_problem"
  /\ pi = Len(problems)
  /\ pc' = "returned"
  /\ UNCHANGED <<pi, fi, exc, locals, logs, io, results, args>>

\* variant: the file is parsed for the first problem only
OpenOk_ParseOnce ==
  /\ pc = "open"
  /\ bqm' = IF bqm = NoObject THEN [id |-> nextId, path |-> problem] ELSE bqm
  /\ openLog' = IF bqm = NoObject
                THEN Append(openLog, [path |-> problem, ret |-> nextId])
                ELSE openLog
  /\ nextId' = nextId + 1
  /\ fi' = 0
  /\ pc' = "for_factory"
  /\ UNCHANGED <<pi, exc, qpu, solver, init_state, future, solution, timer>>
  /\ UNCHANGED <<running, clientLog, factoryLog, stateLog, runLog, io, results, args>>

\* with open(problem) as fp: bqm = BinaryQuadraticModel.from_coo(fp)
OpenOk ==
  /\ pc = "open"
  /\ bqm' = [id |-> nextId, path |-> problem]
  /\ openLog' = Append(openLog, [path |-> problem, ret |-> nextId])
  /\ nextId' = nextId + 1
  /\ fi' = 0
  /\ pc' = "for_factory"
  /\ UNCHANGED <<pi, exc, qpu, solver, init_state, future, solution, timer>>
  /\ UNCHANGED <<running, clientLog, factoryLog, stateLog, runLog, io, results, args>>

OpenRaises ==
  /\ pc = "open"
  /\ openLog' = Append(openLog, [path |-> problem, ret |-> 0])
  /\ \E k \in ExcKinds : Raise(k, "open")
  /\ UNCHANGED <<pi, fi, locals, io, results, args>>
  /\ UNCHANGED <<nextId, running, clientLog, factoryLog, stateLog, runLog>>

\* for name, factory in solver_factories: case = ...
ForFactory ==
  /\ pc = "for_factory"
  /\ fi < Len(solver_factories)
  /\ fi' = fi + 1
  /\ LET c == <<problem, solver_factories[fi + 1]>>
     IN IF oracle[c] = Unset
        THEN \E o \in Outcomes : oracle' = [oracle EXCEPT ![c] = o]
        ELSE oracle' = oracle
  /\ pc' = "factory"
  /\ UNCHANGED <<pi, exc, locals, logs, io, results>>
  /\ UNCHANGED <<problems, solver_factories, rerun, prevStderr>>

\* the pipelines are exhausted: next problem
EndFactories ==
  /\ pc = "for_factory"
  /\ fi = Len(solver_factories)
  /\ pc' = "for_problem"
  /\ UNCHANGED <<pi, fi, exc, locals, logs, io, results, args>>

\* variant: solver = factory(bqm=bqm, qpu=DWaveSampler())
FactoryCall_NewClient ==
  /\ pc = "factory"
  /\ clientLog' = Append(clientLog, nextId)
  /\ IF oracle[case].stage = "factory"
     THEN /\ factoryLog' = Append(factoryLog,
               [problem |-> problem, name |-> name, bqm |-> bqm.id, qpu |-> nextId, ret |-> 0])
          /\ Raise(oracle[case].kind, "factory")
          /\ nextId' = nextId + 1
          /\ UNCHANGED solver
     ELSE /\ factoryLog' = Append(factoryLog,
               [problem |-> problem, name |-> name, bqm |-> bqm.id, qpu |-> nextId,
                ret |-> nextId + 1])
          /\ solver' = [id |-> nextId + 1]
          /\ nextId' = nextId + 2
          /\ pc' = "from_sample"
          /\ UNCHANGED exc
  /\ UNCHANGED <<pi, fi, qpu, bqm, init_state, future, solution, timer>>
  /\ UNCHANGED <<running, openLog, stateLog, runLog, io, results, args>>

\* solver = factory(bqm=bqm, qpu=qpu)
FactoryCall ==
  /\ pc = "factory"
  /\ IF oracle[case].stage = "factory"
     THEN /\ factoryLog' = Append(factoryLog,
               [problem |-> problem, name |-> name, bqm |-> bqm.id, qpu |-> qpu, ret |-> 0])
          /\ Raise(oracle[case].kind, "factory")
          /\ UNCHANGED <<solver, nextId>>
     ELSE /\ factoryLog' = Append(factoryLog,
               [problem |-> problem, name |-> name, bqm |-> bqm.id, qpu |-> qpu, ret |-> nextId])
          /\ solver' = [id |-> nextId]
          /\ nextId' = nextId + 1
          /\ pc' = "from_sample"
          /\ UNCHANGED exc
  /\ UNCHANGED <<pi, fi, qpu, bqm, init_state, future, solution, timer>>
  /\ UNCHANGED <<running, clientLog, openLog, stateLog, runLog, io, results, args>>

\* init_state = State.from_sample(min_sample(bqm), bqm)
FromSample ==
  /\ pc = "from_sample"
  /\ IF oracle[case].stage = "from_sample"
     THEN /\ stateLog' = Append(stateLog,
               [problem |-> problem, name |-> name, bqm |-> bqm.id, ret |-> 0])
          /\ Raise(oracle[case].kind, "from_sample")
          /\ UNCHANGED <<init_state, nextId>>
     ELSE /\ stateLog' = Append(stateLog,
               [problem |-> problem, name |-> name, bqm |-> bqm.id, ret |-> nextId])
          /\ init_state' = [id |-> nextId]
          /\ nextId' = nextId + 1
          /\ pc' = "run"
          /\ UNCHANGED exc
  /\ UNCHANGED <<pi, fi, qpu, bqm, solver, future, solution, timer>>
  /\ UNCHANGED <<running, clientLog, openLog, factoryLog, runLog, io, results, args>>

\* with tictoc(case) as timer: solver.run(init_state)
RunCall ==
  /\ pc = "run"
  /\ runLog' = Append(runLog,
       [problem |-> problem, name |-> name, solver |-> solver.id, state |-> init_state.id])
  /\ IF oracle[case].stage = "run"
     THEN /\ Raise(oracle[case].kind, "run")
          /\ UNCHANGED <<future, running>>
     ELSE /\ future' = [id |-> solver.id]
          /\ running' = running \cup {solver.id}
          /\ pc' = "result"
          /\ UNCHANGED exc
  /\ UNCHANGED <<pi, fi, qpu, bqm, solver, init_state, solution, timer>>
  /\ UNCHANGED <<nextId, clientLog, openLog, factoryLog, stateLog, io, results, args>>

\* variant: the driver takes the result without waiting for the pipeline
Result_NoWait ==
  /\ pc = "result"
  /\ running' = running
  /\ IF oracle[case].stage = "result"
     THEN /\ Raise(oracle[case].kind, "result")
          /\ UNCHANGED <<solution, timer>>
     ELSE /\ solution' = [id |-> future.id,
                          readable |-> oracle[case].stage # "else",
                          energy |-> oracle[case].energy]
          /\ \E dt \in tictoc_dt : timer' = dt
          /\ pc' = "else"
          /\ UNCHANGED exc
  /\ UNCHANGED <<pi, fi, qpu, bqm, solver, init_state, future>>
  /\ UNCHANGED <<nextId, clientLog, openLog, factoryLog, stateLog, runLog, io, results, args>>

\* solution = <future>.result(), then the timer stops
Result ==
  /\ pc = "result"
  /\ running' = running \ {future.id}
  /\ IF oracle[case].stage = "result"
     THEN /\ Raise(oracle[case].kind, "result")
          /\ UNCHANGED <<solution, timer>>
     ELSE /\ solution' = [id |-> future.id,
                          readable |-> oracle[case].stage # "else",
                          energy |-> oracle[case].energy]
          /\ \E dt \in tictoc_dt : timer' = dt
          /\ pc' = "else"
          /\ UNCHANGED exc
  /\ UNCHANGED <<pi, fi, qpu, bqm, solver, init_state, future>>
  /\ UNCHANGED <<nextId, clientLog, openLog, factoryLog, stateLog, runLog, io, results, args>>

\* variant: the handler prints and records nothing
ExceptClause_Pass ==
  /\ pc = "raised"
  /\ Caught(exc)
  /\ stdout' = Append(stdout, [line |-> "FAILED", problem |-> problem, name |-> name])
  /\ pc' = "for_factory"
  /\ UNCHANGED <<pi, fi, exc, locals, logs, stderr, results, args>>

\* variant: the handler records the failure and leaves the pipeline loop
ExceptClause_Break ==
  /\ pc = "raised"
  /\ Caught(exc)
  /\ stdout' = Append(stdout, [line |-> "FAILED", problem |-> problem, name |-> name])
  /\ results' = SetEntry(results, problem, name, ErrorEntry(exc.kind))
  /\ pc' = "for_problem"
  /\ UNCHANGED <<pi, fi, exc, locals, logs, stderr, args>>

\* except Exception as exc: print FAILED; results[problem][name] = repr(exc)
ExceptClause ==
  /\ pc = "raised"
  /\ Caught(exc)
  /\ stdout' = Append(stdout, [line |-> "FAILED", problem |-> problem, name |-> name])
  /\ results' = SetEntry(results, problem, name, ErrorEntry(exc.kind))
  /\ pc' = "for_factory"
  /\ UNCHANGED <<pi, fi, exc, locals, logs, stderr, args>>

\* no handler in run: the exception leaves run and ends the process
Propagate ==
  /\ pc = "raised"
  /\ ~Caught(exc)
  /\ pc' = "fatal"
  /\ UNCHANGED <<pi, fi, exc, locals, logs, io, results, args>>

\* variant: the record's energy is taken from the timer
ElseClause_EnergyFromTimer ==
  /\ pc = "else"
  /\ IF solution.readable
     THEN /\ stdout' = Append(stdout, [line |-> "case", problem |-> problem, name |-> name])
          /\ results' = SetEntry(results, problem, name, RecordEntry(timer, timer))
          /\ pc' = "for_factory"
          /\ UNCHANGED exc
     ELSE /\ Raise(oracle[case].kind, "else")
          /\ UNCHANGED <<stdout, results>>
  /\ UNCHANGED <<pi, fi, locals, logs, stderr, args>>

\* else: print case=...; results[problem][name] = dict(energy=, wallclock=)
ElseClause ==
  /\ pc = "else"
  /\ IF solution.readable
     THEN /\ stdout' = Append(stdout, [line |-> "case", problem |-> problem, name |-> name])
          /\ results' = SetEntry(results, problem, name,
                                 RecordEntry(solution.energy, timer))
          /\ pc' = "for_factory"
          /\ UNCHANGED exc
     ELSE /\ Raise(oracle[case].kind, "else")
          /\ UNCHANGED <<stdout, results>>
  /\ UNCHANGED <<pi, fi, locals, logs, stderr, args>>

\* variant: the dump sits in a finally block and also runs after a fatal error
Main_Finally ==
  /\ pc \in {"returned", "fatal"}
  /\ stderr' = Append(stderr, json_dumps(results))
  /\ pc' = "exit"
  /\ UNCHANGED <<pi, fi, exc, locals, logs, stdout, results, args>>

\* print(json.dumps(results), file=sys.stderr)
Main ==
  /\ pc = "returned"
  /\ stderr' = Append(stderr, json_dumps(results))
  /\ pc' = "exit"
  /\ UNCHANGED <<pi, fi, exc, locals, logs, stdout, results, args>>

\* the program is started again on the same problems and pipelines
Rerun ==
  /\ pc = "exit"
  /\ ~rerun
  /\ rerun' = TRUE
  /\ prevStderr' = [i \in 1..Len(stderr) |-> WithoutWallclock(stderr[i])]
  /\ pc' = "start"
  /\ results' = <<>>
  /\ qpu' = 0
  /\ pi' = 0
  /\ fi' = 0
  /\ bqm' = NoObject
  /\ solver' = NoObject
  /\ init_state' = NoObject
  /\ future' = NoObject
  /\ solution' = NoObject
  /\ timer' = 0
  /\ exc' = NoExc
  /\ nextId' = 1
  /\ running' = {}
  /\ clientLog' = <<>>
  /\ openLog' = <<>>
  /\ factoryLog' = <<>>
  /\ stateLog' = <<>>
  /\ runLog' = <<>>
  /\ stdout' = <<>>
  /\ stderr' = <<>>
  /\ UNCHANGED <<problems, solver_factories, oracle>>

Next ==
  \/ DWaveSamplerOk
  \/ DWaveSamplerRaises
  \/ ForProblem
  \/ Return
  \/ OpenOk
  \/ OpenRaises
  \/ ForFactory
  \/ EndFactories
  \/ FactoryCall
  \/ FromSample
  \/ RunCall
  \/ Result
  \/ ExceptClause
  \/ Propagate
  \/ ElseClause
  \/ Main
  \/ Rerun

Spec == Init /\ [][Next]_vars

TypeOK ==
  /\ pc \in {"start", "for_problem", "open", "for_factory", "factory",
             "from_sample", "run", "result", "raised", "else", "returned",
             "exit", "fatal"}
  /\ pi \in 0..Len(problems)
  /\ fi \in 0..Len(solver_factories)

\* ---------------------------------------------------- notions of the claims
Range(s) == {s[i] : i \in 1..Len(s)}

IsPrefix(a, b) == Len(a) <= Len(b) /\ \A i \in 1..Len(a) : a[i] = b[i]

\* the (problem, pipeline name) cases in problem-major, pipeline-minor order
CaseOrder ==
  LET n == Len(solver_factories)
  IN [k \in 1..(Len(problems) * n) |->
        <<problems[((k - 1) \div n) + 1], solver_factories[((k - 1) % n) + 1]>>]

RECURSIVE FlatKeys(_)
\* the (problem, pipeline name) keys of a result mapping, in the mapping's order
FlatKeys(res) ==
  IF res = <<>> THEN <<>>
  ELSE [j \in 1..Len(Head(res).value) |-> <<Head(res).key, Head(res).value[j].key>>]
       \o FlatKeys(Tail(res))

Missing == [type |-> "missing"]

\* the entry under (p, n), or Missing
Entry(res, p, n) ==
  IF OdHas(res, p) /\ OdHas(OdGet(res, p), n)
  THEN OdGet(OdGet(res, p), n) ELSE Missing

Recorded(c) == Entry(results, c[1], c[2]) # Missing

IsErrorString(v) ==
  /\ DOMAIN v = {"type", "repr"}
  /\ v.type = "str"
  /\ v.repr \in {Repr(k) : k \in ExcKinds}

IsRecord(v) ==
  /\ DOMAIN v = {"type", "energy", "wallclock"}
  /\ v.type = "dict"
  /\ v.energy \in Int
  /\ v.wallclock \in Nat

Returned == pc \in {"returned", "exit"}

\* the entries recorded so far
Entries == {Entry(results, c[1], c[2]) : c \in Paths \X Names} \ {Missing}

\* ------------------------------------------------------------------ claims
\* C1: when run returns, for every problem of the input list and every
\* configured pipeline the result mapping holds exactly one entry under
\* (problem, pipeline name); the entry is either an error string or a record
\* with a numeric energy and a non-negative wallclock, never both; and the
\* mapping holds no entry for a pair that was not configured.
C1_OneEntryPerCase ==
  Returned =>
    /\ \A i \in 1..Len(problems) :
         /\ Cardinality({r \in 1..Len(results) : results[r].key = problems[i]}) = 1
         /\ \A j \in 1..Len(solver_factories) :
              LET row == OdGet(results, problems[i])
                  v == Entry(results, problems[i], solver_factories[j])
              IN /\ Cardinality({c \in 1..Len(row) : row[c].key = solver_factories[j]}) = 1
                 /\ IsErrorString(v) # IsRecord(v)
    /\ \A r \in 1..Len(results) :
         /\ results[r].key \in Range(problems)
         /\ \A c \in 1..Len(results[r].value) :
              results[r].value[c].key \in Range(solver_factories)
    /\ Len(FlatKeys(results)) = Len(problems) * Len(solver_factories)

C1_Witness ==
  /\ pc = "returned"
  /\ Len(problems) = 2
  /\ Len(solver_factories) = 2
  /\ \E v \in Entries : IsErrorString(v)
  /\ \E v \in Entries : IsRecord(v) /\ v.wallclock > 0

\* C2: an exception (an instance of Exception) raised by the factory call,
\* the initial-state construction or the pipeline execution of one case is
\* recorded as its repr under (problem, pipeline name), leaves every other
\* entry as it was and lets the loop go on; so a run that returns has
\* attempted every case, whatever failed before.
C2Step ==
  (pc = "raised" /\ exc.at \in TryStages /\ IsException(exc.kind)) =>
    /\ pc' = "for_factory"
    /\ pi' = pi
    /\ fi' = fi
    /\ Entry(results', problem, name) = ErrorEntry(exc.kind)
    /\ \A p \in Paths, n \in Names :
         <<p, n>> # case => Entry(results', p, n) = Entry(results, p, n)

C2Attempted ==
  Returned =>
    \A k \in 1..Len(CaseOrder) :
      \E i \in 1..Len(factoryLog) :
        <<factoryLog[i].problem, factoryLog[i].name>> = CaseOrder[k]

C2_FailureIsRecordedAndRunContinues == [][C2Step]_vars /\ []C2Attempted

C2_Witness ==
  /\ pc = "returned"
  /\ Len(CaseOrder) = 4
  /\ IsErrorString(Entry(results, CaseOrder[1][1], CaseOrder[1][2]))
  /\ IsErrorString(Entry(results, CaseOrder[2][1], CaseOrder[2][2]))
  /\ IsRecord(Entry(results, CaseOrder[3][1], CaseOrder[3][2]))
  /\ IsRecord(Entry(results, CaseOrder[4][1], CaseOrder[4][2]))

\* C3: in every state the problems of the result mapping are a prefix of
\* the input problem list, the pipeline names under each problem are a
\* prefix of the configured pipeline list and the recorded entries are a
\* prefix of the problem-major, pipeline-minor order of the cases; when run
\* returns the orders are equal, whichever cases failed.
C3_InsertionOrder ==
  /\ IsPrefix(OdKeys(results), problems)
  /\ \A r \in 1..Len(results) : IsPrefix(OdKeys(results[r].value), solver_factories)
  /\ IsPrefix(FlatKeys(results), CaseOrder)
  /\ Returned => /\ OdKeys(results) = problems
                 /\ FlatKeys(results) = CaseOrder

C3_Witness ==
  /\ pc = "returned"
  /\ problems = <<2, 1>>
  /\ solver_factories = <<2, 1>>
  /\ IsErrorString(Entry(results, 2, 1))
  /\ IsRecord(Entry(results, 1, 2))

\* C4: an exception raised while the device handle is established or while
\* a problem file is opened and parsed leaves run and ends the process,
\* with nothing recorded, attempted or written afterwards; an error (an
\* instance of Exception) raised inside the per-case try block never does.
C4Step ==
  /\ (pc = "raised" /\ exc.at \in {"DWaveSampler", "open"}) =>
        /\ pc' = "fatal"
        /\ UNCHANGED <<results, logs, io>>
  /\ (pc = "raised" /\ exc.at \in TryStages /\ IsException(exc.kind)) =>
        pc' # "fatal"
  /\ pc' = "fatal" => pc = "raised"
  /\ pc # "fatal"

C4_FatalOnlyOutsideTry == [][C4Step]_vars

C4_Witness ==
  /\ pc = "fatal"
  /\ exc.at = "open"
  /\ pi = 2
  /\ Len(solver_factories) = 2
  /\ IsErrorString(Entry(results, problems[1], solver_factories[2]))

\* C5: the device handle is constructed at most once per run and before any
\* problem file is opened; every factory call of every case receives that
\* one handle, and the driver's handle never changes, also after a case
\* has failed.
C5_OneSharedHandle ==
  /\ Len(clientLog) <= 1
  /\ openLog # <<>> => Len(clientLog) = 1
  /\ qpu # 0 => clientLog = <<qpu>>
  /\ pc \notin {"start", "raised", "fatal"} => qpu # 0
  /\ \A i \in 1..Len(factoryLog) :
       /\ factoryLog[i].qpu # 0
       /\ clientLog = <<factoryLog[i].qpu>>

C5_Witness ==
  /\ pc = "from_sample"
  /\ Len(factoryLog) = 4
  /\ \E v \in Entries : IsErrorString(v)

\* C6: the error stream receives the JSON dump at most once, only after run
\* has returned with every case attempted and recorded, and the dump is that
\* of the complete mapping; the stream is empty while cases are pending and
\* stays empty when the run ends with a fatal error.
C6_DumpOnceAtEnd ==
  /\ Len(stderr) <= 1
  /\ pc = "exit" => Len(stderr) = 1
  /\ stderr # <<>> =>
       /\ pc = "exit"
       /\ FlatKeys(results) = CaseOrder
       /\ OdKeys(results) = problems
       /\ stderr = <<json_dumps(results)>>
       /\ Len(stdout) = Len(CaseOrder)
  /\ pc = "fatal" => stderr = <<>>

C6_Witness ==
  /\ pc = "exit"
  /\ Len(CaseOrder) = 4
  /\ Len(stderr) = 1
  /\ Len(stderr[1]) = 2
  /\ Len(stderr[1][2].value) = 2

\* C7: at most one pipeline is executing at any time, none is executing
\* when a factory is called, and a factory call for a case starts only when
\* every case started before it has its entry recorded.
C7_StrictlySequential ==
  /\ Cardinality(running) <= 1
  /\ pc \in {"factory", "from_sample", "run"} => running = {}
  /\ \A i \in 1..Len(factoryLog) :
       (i < Len(factoryLog) \/ pc \in {"factory", "for_factory", "for_problem"})
          => Recorded(<<factoryLog[i].problem, factoryLog[i].name>>)

C7_Witness ==
  /\ pc = "result"
  /\ running # {}
  /\ Len(factoryLog) = 3
  /\ Len(runLog) = 2

\* C8: a second run of the program on the same problems and pipelines, whose
\* pipelines do for every case what they did in the first run, dumps a
\* mapping with the same keys in the same order, the same error strings and
\* the same energies; only wallclock values may differ.
C8_Deterministic ==
  (rerun /\ pc = "exit") =>
     [i \in 1..Len(stderr) |-> WithoutWallclock(stderr[i])] = prevStderr

C8_Witness ==
  /\ rerun
  /\ pc = "exit"
  /\ Len(CaseOrder) = 4
  /\ \E v \in Entries : IsErrorString(v)
  /\ \E v \in Entries : IsRecord(v) /\ v.wallclock = 1 /\ v.energy = -1
  /\ \E v \in Entries : IsRecord(v) /\ v.wallclock = 0 /\ v.energy = 0

\* C9: a problem file is opened and parsed at most once per run and the
\* instance it gave is the one passed to every factory call and every
\* initial-state construction for that problem; the factory is called
\* exactly once per attempted case, exactly one initial state is built in
\* every case whose factory call returned (none otherwise), and a pipeline
\* is run only on the instance and the state built in its own case: no
\* instance or state serves two cases.
Parsed(p) == {openLog[i].ret : i \in {i \in 1..Len(openLog) : openLog[i].path = p}}

CallsOf(log, c) == {i \in 1..Len(log) : <<log[i].problem, log[i].name>> = c}

C9_NothingReused ==
  /\ \A p \in Paths : Cardinality({i \in 1..Len(openLog) : openLog[i].path = p}) <= 1
  /\ \A i \in 1..Len(factoryLog) :
       /\ factoryLog[i].bqm # 0
       /\ Parsed(factoryLog[i].problem) = {factoryLog[i].bqm}
  /\ \A i \in 1..Len(stateLog) :
       /\ stateLog[i].bqm # 0
       /\ Parsed(stateLog[i].problem) = {stateLog[i].bqm}
  /\ \A c \in Paths \X Names :
       /\ Cardinality(CallsOf(factoryLog, c)) <= 1
       /\ Cardinality(CallsOf(stateLog, c)) <= 1
       /\ Cardinality(CallsOf(runLog, c)) <= 1
       /\ Recorded(c) => Cardinality(CallsOf(factoryLog, c)) = 1
       /\ (Recorded(c) /\ \E f \in CallsOf(factoryLog, c) : factoryLog[f].ret # 0)
            => Cardinality(CallsOf(stateLog, c)) = 1
  /\ \A i \in 1..Len(runLog) :
       LET c == <<runLog[i].problem, runLog[i].name>>
       IN /\ runLog[i].solver # 0
          /\ runLog[i].state # 0
          /\ \E f \in CallsOf(factoryLog, c) : factoryLog[f].ret = runLog[i].solver
          /\ \E t \in CallsOf(stateLog, c) : stateLog[t].ret = runLog[i].state
  /\ \A i, j \in 1..Len(runLog) :
       i # j => /\ runLog[i].solver # runLog[j].solver
                /\ runLog[i].state # runLog[j].state

C9_Witness ==
  /\ pc = "returned"
  /\ Len(openLog) = 2
  /\ Len(factoryLog) = 4
  /\ Len(stateLog) = 3
  /\ Len(runLog) = 2

\* C10: when the pipeline execution has returned and reading the energy of
\* the solution raises in the else clause, the exception (an instance of
\* Exception included) is not caught: it ends the run, no entry is written
\* under the case and no later case is attempted.
C10Step ==
  (pc = "raised" /\ exc.at = "else") =>
     /\ pc' = "fatal"
     /\ ~Recorded(case)
     /\ UNCHANGED <<results, logs, io>>

C10_ElseClauseUnprotected == [][C10Step /\ pc # "fatal"]_vars

C10_Witness ==
  /\ pc = "fatal"
  /\ exc = [kind |-> "ValueError", at |-> "else"]
  /\ Len(CaseOrder) = 4
  /\ pi = 1
  /\ fi = 2
  /\ ~Recorded(case)
  /\ Len(factoryLog) = 2

====
